---- MODULE Spec2Model ----
(***************************************************************************)
(* A model of soccer_schedule_scraper.py: the team id validator, the       *)
(* structured-API source adapter (get_team_schedule_from_api), the         *)
(* calendar emitter (create_calendar_events) and the request dispatcher    *)
(* (lambda_handler).                                                       *)
(*                                                                         *)
(* Strings that the code inspects character by character are sequences of  *)
(* one-character tokens.  Instants are integers counted in ticks of 15     *)
(* seconds, so that sub-minute differences and the rounding of "now" to    *)
(* the minute are visible.                                                 *)
(***************************************************************************)
EXTENDS Integers, Sequences, FiniteSets, TLC

VARIABLES
    v_in, v_out,                 \* validate_team_id: argument, outcome
    api_in, api_out,             \* get_team_schedule_from_api: inputs, outcome
    cal_in, cal_out,             \* create_calendar_events: inputs, outcome
    event, pc, idx,              \* lambda_handler: request, position, loop index
    valid_team_ids, invalid_team_ids, seen_ids, validation_errors,
    all_games, failed_teams, response,
    validate_calls, fetch_log, emit_calls

vars == << v_in, v_out, api_in, api_out, cal_in, cal_out, event, pc, idx,
           valid_team_ids, invalid_team_ids, seen_ids, validation_errors,
           all_games, failed_teams, response,
           validate_calls, fetch_log, emit_calls >>

validateVars == << v_in, v_out >>
apiVars == << api_in, api_out >>
calVars == << cal_in, cal_out >>
handlerVars == << event, pc, idx, valid_team_ids, invalid_team_ids, seen_ids,
                  validation_errors, all_games, failed_teams, response,
                  validate_calls, fetch_log, emit_calls >>

None == [none |-> TRUE]

\* ------------------------------------------------------------------ text

\* Characters of a Python str.  "U3" stands for a decimal digit outside
\* ASCII (such as U+0663 ARABIC-INDIC DIGIT THREE), "SP" for a blank and
\* "NL" for a line feed.
AsciiDigits == {"0", "1"}
UnicodeDigits == {"U3"}
Spaces == {"SP", "NL"}
Letters == {"a"}
Alphabet == AsciiDigits \cup UnicodeDigits \cup Spaces \cup Letters

\* The length of the longest str handed to validate_team_id.
MaxStrLen == 7

\* The number of digits of a team id.
IdLen == 6

\* re's \d on a str pattern: any Unicode decimal digit.
IsDigit(c) == c \in AsciiDigits \cup UnicodeDigits

\* str.isspace of one character.
IsSpace(c) == c \in Spaces

DigitValue(c) == IF c = "1" THEN 1 ELSE IF c = "U3" THEN 3 ELSE 0

RECURSIVE LStrip(_)
LStrip(s) == IF s # <<>> /\ IsSpace(Head(s)) THEN LStrip(Tail(s)) ELSE s

RECURSIVE RStrip(_)
RStrip(s) ==
    IF s # <<>> /\ IsSpace(s[Len(s)]) THEN RStrip(SubSeq(s, 1, Len(s) - 1)) ELSE s

\* str.strip()
Strip(s) == RStrip(LStrip(s))

\* re.match(r'^\d{6}$', s): six digits, then the end of the string or a
\* line feed that ends the string.
ReMatchSixDigits(s) ==
    /\ Len(s) \in {IdLen, IdLen + 1}
    /\ \A i \in 1..IdLen : IsDigit(s[i])
    /\ Len(s) = IdLen + 1 => s[IdLen + 1] = "NL"

RECURSIVE DigitsValue(_)
DigitsValue(s) ==
    IF s = <<>> THEN 0
    ELSE 10 * DigitsValue(SubSeq(s, 1, Len(s) - 1)) + DigitValue(s[Len(s)])

\* int(s): surrounding whitespace is dropped, decimal digits of any script
\* are read; anything else is a ValueError.
ParseInt(s) ==
    LET t == Strip(s) IN
    IF t # <<>> /\ \A i \in 1..Len(t) : IsDigit(t[i])
    THEN [ok |-> TRUE, val |-> DigitsValue(t)]
    ELSE [ok |-> FALSE, val |-> 0]

\* A Python value handed to validate_team_id: a str, or something else.
Str(s) == [isstr |-> TRUE, chars |-> s]
NonString == [isstr |-> FALSE, chars |-> <<>>]

Ok == [ok |-> TRUE, err |-> ""]
Raise(msg) == [ok |-> FALSE, err |-> msg]

\* validate_team_id(team_id): Ok for "return True", Raise(m) for ValueError(m).
validate_team_id(team_id) ==
    IF ~team_id.isstr THEN Raise("Team ID must be a string")
    ELSE IF Strip(team_id.chars) = <<>> THEN Raise("Team ID cannot be empty")
    ELSE IF ~ReMatchSixDigits(team_id.chars)
         THEN Raise("Team ID must be exactly 6 digits")
    ELSE LET n == ParseInt(team_id.chars) IN
         IF ~n.ok THEN Raise("Team ID must be a valid number")
         ELSE IF n.val <= 0 THEN Raise("Team ID must be a positive number")
         ELSE Ok

\* The sequences over S of length at most n.
SeqsUpTo(S, n) == UNION {[1..k -> S] : k \in 0..n}

\* ------------------------------------------------------------------ time

\* Ticks per minute: the resolution of an instant (a tick is 15 seconds).
TicksPerMin == 4

TicksPerHour == 60 * TicksPerMin
TicksPerDay == 24 * TicksPerHour

\* mt_offset, in hours: the fixed Mountain Time offset.
mt_offset == -7

\* timedelta(days=7): how stale the first game may be.
WeekDays == 7

IsLeap(y) == (y % 4 = 0 /\ y % 100 # 0) \/ y % 400 = 0
DaysInYear(y) == IF IsLeap(y) THEN 366 ELSE 365
DaysInMonth(y, m) ==
    IF m = 2 THEN (IF IsLeap(y) THEN 29 ELSE 28)
    ELSE IF m \in {4, 6, 9, 11} THEN 30 ELSE 31

\* Days from the epoch of the model, 2024-01-01, to January 1st of year y.
RECURSIVE DaysBeforeYear(_)
DaysBeforeYear(y) == IF y <= 2024 THEN 0 ELSE DaysBeforeYear(y - 1) + DaysInYear(y - 1)

RECURSIVE DaysBeforeMonth(_, _)
DaysBeforeMonth(y, m) ==
    IF m <= 1 THEN 0 ELSE DaysBeforeMonth(y, m - 1) + DaysInMonth(y, m - 1)

\* datetime(y, m, d) + tod: the wall-clock reading as ticks since the epoch.
ToTicks(y, m, d, tod) ==
    (DaysBeforeYear(y) + DaysBeforeMonth(y, m) + (d - 1)) * TicksPerDay + tod

YearOf(t) ==
    CHOOSE y \in 2024..2030 :
        /\ DaysBeforeYear(y) * TicksPerDay <= t
        /\ t < DaysBeforeYear(y + 1) * TicksPerDay

MonthOf(t) ==
    LET y == YearOf(t)
        dy == (t \div TicksPerDay) - DaysBeforeYear(y)
    IN CHOOSE m \in 1..12 :
        DaysBeforeMonth(y, m) <= dy /\ dy < DaysBeforeMonth(y, m) + DaysInMonth(y, m)

DayOf(t) ==
    LET y == YearOf(t)
    IN (t \div TicksPerDay) - DaysBeforeYear(y) - DaysBeforeMonth(y, MonthOf(t)) + 1

TodOf(t) == t % TicksPerDay

\* A datetime: its wall-clock reading, and its UTC offset when it is aware.
Aware(wall, off) == [aware |-> TRUE, wall |-> wall, off |-> off]
Naive(wall) == [aware |-> FALSE, wall |-> wall, off |-> 0]

\* timezone(timedelta(hours=mt_offset))
tz == mt_offset * TicksPerHour

\* The point in time of an aware datetime, as UTC ticks.
Instant(dt) == dt.wall - dt.off

\* dt.astimezone(zone): a naive datetime is taken to be in the system's
\* local zone, whose offset is sysoff.
astimezone(dt, zone, sysoff) ==
    LET utc == IF dt.aware THEN Instant(dt) ELSE dt.wall - sysoff
    IN Aware(utc + zone, zone)

\* pandas Timestamp.round('min'): to the nearest minute of the wall clock,
\* a tie going to the even minute.
RoundMin(dt) ==
    LET q == dt.wall \div TicksPerMin
        r == dt.wall % TicksPerMin
        up == \/ 2 * r > TicksPerMin
              \/ (2 * r = TicksPerMin /\ q % 2 = 1)
    IN [dt EXCEPT !.wall = (IF up THEN q + 1 ELSE q) * TicksPerMin]

\* strftime("%a %m/%d %I:%M %p"): month, day, hour and minute; the year
\* and the seconds are not written.  The weekday is left out: strptime
\* reads it and ignores it.
DateText(mon, day, mins) == [mon |-> mon, day |-> day, mins |-> mins]
strftime(dt) == DateText(MonthOf(dt.wall), DayOf(dt.wall), TodOf(dt.wall) \div TicksPerMin)

\* ------------------------------------------------- the structured API

\* SchedGameDateTime.  kind "missing": absent, null or "" (falsy);
\* "nonstr": a truthy value that is no str; "garbage": a str that
\* fromisoformat rejects; "iso": a wall-clock reading and a zone suffix
\* ("Z", "-07:00", "+00:00", or "" for none).
DtMissing == [kind |-> "missing", wall |-> 0, sfx |-> ""]
DtNonStr == [kind |-> "nonstr", wall |-> 0, sfx |-> ""]
DtGarbage == [kind |-> "garbage", wall |-> 0, sfx |-> ""]
Iso(wall, sfx) == [kind |-> "iso", wall |-> wall, sfx |-> sfx]

\* field_name: absent (or null, or ""), a str given as its pieces, or a
\* truthy value that is no str.
FieldNameAbsent == [kind |-> "absent", toks |-> <<>>]
FieldNameNonStr == [kind |-> "nonstr", toks |-> <<>>]
FieldName(toks) == [kind |-> "str", toks |-> toks]

\* Field: absent, null, or a value with its str().
FieldAbsent == [kind |-> "absent", text |-> ""]
FieldNull == [kind |-> "null", text |-> ""]
FieldValue(text) == [kind |-> "val", text |-> text]

\* home_team / visitor_team: absent, a value that is no object, or an
\* object whose team_name is name ("" when it has none).
TeamAbsent == [kind |-> "absent", name |-> ""]
TeamNonObj == [kind |-> "nonobj", name |-> ""]
Team(name) == [kind |-> "obj", name |-> name]

\* One element of data["games"].
RawGame(obj, dt, field_name, Field, home, visitor) ==
    [obj |-> obj, game_id |-> 0, SchedGameDateTime |-> dt, field_name |-> field_name,
     Field |-> Field, home_team |-> home, visitor_team |-> visitor]

\* What a record's processing ends in.
Skip == [kept |-> FALSE]
Keep(g) == [kept |-> TRUE, game |-> g]

\* s.replace("Field ", "") on the pieces of a str.
RemoveFieldPrefix(toks) == SelectSeq(toks, LAMBDA t : t # "Field ")

RECURSIVE Concat(_)
Concat(toks) == IF toks = <<>> THEN "" ELSE Head(toks) \o Concat(Tail(toks))

\* str(game.get("Field", ""))
StrOfField(f) ==
    IF f.kind = "absent" THEN "" ELSE IF f.kind = "null" THEN "None" ELSE f.text

\* ReplaceZ, had it read "Z" as what it stands for, UTC.
ReplaceZAsUtc(sfx) == IF sfx = "Z" THEN "+00:00" ELSE sfx

\* game_datetime.replace("Z", "-07:00") on the zone suffix.
ReplaceZ(sfx) == IF sfx = "Z" THEN "-07:00" ELSE sfx

\* datetime.fromisoformat of a well-formed text with zone suffix sfx.
fromisoformat(wall, sfx) ==
    IF sfx = "" THEN Naive(wall)
    ELSE IF sfx = "-07:00" THEN Aware(wall, -7 * TicksPerHour)
    ELSE Aware(wall, 0)

\* The future-only filter of line 145.
IsUpcoming(game_date, current_date) == Instant(game_date) >= Instant(current_date)

\* The body of the loop over data["games"] (lines 120-160) for one record.
\* An AttributeError (a .get or .replace on a value that has none) and a
\* ValueError of fromisoformat are caught and the record is left out.
ProcessGame(game, current_date, sysoff) ==
    IF ~game.obj THEN Skip
    ELSE IF game.field_name.kind = "nonstr" THEN Skip
    ELSE IF game.home_team.kind = "nonobj" \/ game.visitor_team.kind = "nonobj" THEN Skip
    ELSE
    LET game_datetime == game.SchedGameDateTime
        field == IF game.field_name.kind = "str" /\ game.field_name.toks # <<>>
                 THEN Concat(RemoveFieldPrefix(game.field_name.toks))
                 ELSE StrOfField(game.Field)
        home_team == game.home_team.name
        away_team == game.visitor_team.name
    IN
    IF game_datetime.kind = "missing" \/ field = "" \/ home_team = "" \/ away_team = ""
    THEN Skip
    ELSE IF game_datetime.kind # "iso" THEN Skip
    ELSE
    LET game_date == astimezone(fromisoformat(game_datetime.wall,
                                              ReplaceZ(game_datetime.sfx)), tz, sysoff)
    IN IF IsUpcoming(game_date, current_date)
       THEN Keep([game_id |-> game.game_id, date |-> strftime(game_date),
                  datetime_obj |-> game_date, field |-> field,
                  home_team |-> home_team, away_team |-> away_team])
       ELSE Skip

RECURSIVE ProcessGames(_, _, _)
ProcessGames(games, current_date, sysoff) ==
    IF games = <<>> THEN <<>>
    ELSE LET r == ProcessGame(Head(games), current_date, sysoff)
             rest == ProcessGames(Tail(games), current_date, sysoff)
         IN IF r.kept THEN <<r.game>> \o rest ELSE rest

\* What requests.get, raise_for_status and response.json() come to.
\* kind: "Timeout", "ConnectionError", "RequestException", "JSONDecodeError",
\* or "json" with the decoded document.  A document is "falsy" (empty, or
\* no object), "noteam", "teamnotobj" (data["team"] is no object),
\* "nogames" (no "games" list) or "doc".
\* A document carries team.Season and team.team_name besides its games.
ApiFailure(kind) ==
    [kind |-> kind, shape |-> "", games |-> <<>>, Season |-> "", team_name |-> ""]
ApiJson(shape, games) ==
    [kind |-> "json", shape |-> shape, games |-> games, Season |-> "25",
     team_name |-> "FC"]

Return(games, season, team_name) ==
    [ok |-> TRUE, errType |-> "", err |-> "", games |-> games,
     season |-> season, team_name |-> team_name]
RaiseOf(errType, msg) ==
    [ok |-> FALSE, errType |-> errType, err |-> msg, games |-> <<>>,
     season |-> "", team_name |-> ""]

\* get_team_schedule_from_api(team_id), given what the network answers, the
\* Mountain Time wall clock that datetime.now(tz) reads and the system's
\* zone offset.
get_team_schedule_from_api(team_id, resp, now, sysoff) ==
    LET v == validate_team_id(team_id) IN
    IF ~v.ok THEN RaiseOf("ValueError", v.err)
    ELSE IF resp.kind = "Timeout" THEN RaiseOf("RuntimeError", "Request timed out")
    ELSE IF resp.kind = "ConnectionError" THEN RaiseOf("RuntimeError", "Connection error")
    ELSE IF resp.kind = "RequestException"
         THEN RaiseOf("RuntimeError", "Failed to fetch schedule")
    ELSE IF resp.kind = "JSONDecodeError"
         THEN RaiseOf("RuntimeError", "Failed to parse API response")
    ELSE IF resp.shape = "falsy" THEN RaiseOf("ValueError", "Invalid API response")
    ELSE IF resp.shape = "noteam" THEN RaiseOf("ValueError", "Team ID not found")
    ELSE IF resp.shape = "teamnotobj"
         THEN RaiseOf("AttributeError", "object has no attribute 'get'")
    ELSE IF resp.shape = "nogames" THEN RaiseOf("ValueError", "No games data found")
    ELSE
    LET current_date == RoundMin(Aware(now, tz))
        games == ProcessGames(resp.games, current_date, sysoff)
    IN IF games = <<>>
       THEN RaiseOf("ValueError", "No upcoming games found for the provided team.")
       ELSE Return(games, resp.Season, resp.team_name)

\* --------------------------------------------------- the calendar emitter

\* A game as create_calendar_events receives it: a dict that may or may not
\* have the keys 'datetime_obj' and 'date'.
HasKey(g, k) == k \in DOMAIN g

TextGame(date, home, away) ==
    [date |-> date, field |-> "3", home_team |-> home, away_team |-> away]

\* datetime.strptime(date, "%a %m/%d %I:%M %p"): the reading in the year
\* 1900, or a ValueError when 1900 has no such day.
StrptimeOk(date) == date.day <= DaysInMonth(1900, date.mon)
StrptimeKey(date) ==
    (DaysBeforeMonth(1900, date.mon) + (date.day - 1)) * TicksPerDay
        + date.mins * TicksPerMin

\* datetime.strptime(f"{date} {year}", "%a %m/%d %I:%M %p %Y")
StrptimeYearOk(date, year) == date.day <= DaysInMonth(year, date.mon)
StrptimeYear(date, year) ==
    Naive(ToTicks(year, date.mon, date.day, date.mins * TicksPerMin))

\* The sort keys of lines 191 and 194.
SortKey(g, by_obj) ==
    IF by_obj THEN Instant(g.datetime_obj) ELSE StrptimeKey(g.date)

\* The error, if any, that computing the sort key of one game raises.
SortKeyError(g, by_obj) ==
    IF by_obj THEN (IF HasKey(g, "datetime_obj") THEN "" ELSE "KeyError")
    ELSE IF ~HasKey(g, "date") THEN "KeyError"
    ELSE IF ~StrptimeOk(g.date) THEN "ValueError"
    ELSE ""

\* sorted(games, key=...): a stable sort, by insertion.
RECURSIVE InsertByKey(_, _, _)
InsertByKey(x, sorted, by_obj) ==
    IF sorted = <<>> THEN <<x>>
    ELSE IF SortKey(x, by_obj) < SortKey(Head(sorted), by_obj) THEN <<x>> \o sorted
    ELSE <<Head(sorted)>> \o InsertByKey(x, Tail(sorted), by_obj)

RECURSIVE SortedByKey(_, _)
SortedByKey(games, by_obj) ==
    IF games = <<>> THEN <<>>
    ELSE InsertByKey(games[Len(games)],
                     SortedByKey(SubSeq(games, 1, Len(games) - 1), by_obj), by_obj)

special_teams == {"MIXED BAG FC", "LOOKING TO SCORE", "NO BUENO O30", "EYE CANDY"}

\* A line of the calendar text: its text, and the datetime it writes.
Line(text) == [text |-> text, dt |-> None]
StartLine(dt) == [text |-> "DTSTART", dt |-> dt]

\* The VEVENT block that cal.serialize() writes for one event: the start is
\* written as a UTC reading.
EventLines(game, game_datetime) ==
    LET versus == game.home_team \o " vs " \o game.away_team
        special == game.home_team \in special_teams \/ game.away_team \in special_teams
    IN << Line("BEGIN:VEVENT"),
          Line("DURATION:PT45M"),
          StartLine(astimezone(game_datetime, 0, 0)),
          Line("SUMMARY:" \o (IF special THEN "Special Event: " ELSE "") \o versus),
          Line("END:VEVENT") >>

\* The block that re.sub puts before every END:VEVENT (lines 241-250).
valarm_block ==
    << Line("BEGIN:VALARM"), Line("ACTION:DISPLAY"),
       Line("DESCRIPTION:Reminder: Soccer game starting soon"),
       Line("TRIGGER:-PT40M"), Line("END:VALARM") >>

RECURSIVE InjectValarm(_)
InjectValarm(lines) ==
    IF lines = <<>> THEN <<>>
    ELSE IF Head(lines).text = "END:VEVENT"
         THEN valarm_block \o <<Head(lines)>> \o InjectValarm(Tail(lines))
         ELSE <<Head(lines)>> \o InjectValarm(Tail(lines))

CalendarHeader == << Line("BEGIN:VCALENDAR"), Line("VERSION:2.0"),
                     Line("PRODID:Soccer Schedule API") >>
CalendarFooter == << Line("END:VCALENDAR") >>

CalReturn(lines) == [ok |-> TRUE, errType |-> "", lines |-> lines]
CalRaise(errType) == [ok |-> FALSE, errType |-> errType, lines |-> <<>>]

\* The error, if any, that the body of the loop of lines 209-234 raises for
\* one game: the date is stamped first, then the other keys are read.
EventError(g, year) ==
    IF ~HasKey(g, "datetime_obj") /\ ~StrptimeYearOk(g.date, year) THEN "ValueError"
    ELSE IF ~(HasKey(g, "home_team") /\ HasKey(g, "away_team") /\ HasKey(g, "field"))
    THEN "KeyError"
    ELSE ""

\* The blocks of the events built by the loop of lines 209-234, in the
\* order of the games (cal.events is a set: the order in which serialize()
\* writes the blocks is its own, and nothing here rests on it).
RECURSIVE EventBlocks(_, _)
EventBlocks(games, year) ==
    IF games = <<>> THEN <<>>
    ELSE LET g == Head(games)
             game_datetime ==
                 IF HasKey(g, "datetime_obj") THEN g.datetime_obj
                 ELSE [StrptimeYear(g.date, year) EXCEPT !.aware = TRUE, !.off = tz]
         IN EventLines(g, game_datetime) \o EventBlocks(Tail(games), year)

\* IsStale, had it counted a first game exactly a week old as stale.
IsStaleAtAWeek(first_game, one_week_ago) == first_game.wall <= one_week_ago

\* Line 206: the first game is more than a week in the past.
IsStale(first_game, one_week_ago) == first_game.wall < one_week_ago

\* create_calendar_events(selected_games), given the naive local reading
\* that datetime.now() returns.
create_calendar_events(selected_games, now) ==
    LET by_obj == selected_games # <<>> /\ HasKey(selected_games[1], "datetime_obj")
        n == Len(selected_games)
    IN
    IF \E i \in 1..n : SortKeyError(selected_games[i], by_obj) # ""
    THEN LET i == CHOOSE j \in 1..n :
                      /\ SortKeyError(selected_games[j], by_obj) # ""
                      /\ \A k \in 1..(j - 1) : SortKeyError(selected_games[k], by_obj) = ""
         IN CalRaise(SortKeyError(selected_games[i], by_obj))
    ELSE
    LET sorted_games == SortedByKey(selected_games, by_obj)
        current_year == YearOf(now)
        one_week_ago == now - WeekDays * TicksPerDay
    IN
    \* an aware first game against the naive one_week_ago: a TypeError
    IF sorted_games # <<>> /\ HasKey(sorted_games[1], "datetime_obj")
    THEN CalRaise("TypeError")
    ELSE
    LET first_game == StrptimeYear(sorted_games[1].date, current_year)
        year == IF sorted_games # <<>> /\ IsStale(first_game, one_week_ago)
                THEN current_year + 1 ELSE current_year
    IN
    IF \E i \in 1..n : EventError(selected_games[i], year) # ""
    THEN LET i == CHOOSE j \in 1..n :
                      /\ EventError(selected_games[j], year) # ""
                      /\ \A k \in 1..(j - 1) : EventError(selected_games[k], year) = ""
         IN CalRaise(EventError(selected_games[i], year))
    ELSE CalReturn(InjectValarm(CalendarHeader \o EventBlocks(selected_games, year)
                                    \o CalendarFooter))

\* ------------------------------------------------------- sample inputs

\* 2025-07-04T19:00:00, the wall-clock reading the sampled instants start at.
Base == ToTicks(2025, 7, 4, 19 * TicksPerHour)

\* Game times are sampled at Base + 0..MaxWall ticks, "now" at
\* Base + 0..MaxNow ticks; a games array holds at most MaxGames records.
MaxWall == 2
MaxNow == 3
MaxGames == 2

Late == Base + MaxWall

GoodGame(dt) ==
    RawGame(TRUE, dt, FieldName(<<"Field ", "3">>), FieldAbsent, Team("A"), Team("B"))

\* Timestamps that fromisoformat reads: "Z" ones at every sampled time, a
\* "-07:00" one at Late, and one of every other zone suffix seven hours
\* after Late (which is Late on the UTC clock).
GoodStamps ==
    {Iso(Base + k, "Z") : k \in 0..MaxWall}
        \cup {Iso(Late, "-07:00")}
        \cup {Iso(Late - tz, sfx) : sfx \in {"Z", "+00:00", ""}}

\* Records of every shape the loop tells apart, all else being in order.
OddGames ==
    LET dt == Iso(Late, "-07:00")
        fn == FieldName(<<"Field ", "3">>)
    IN {
        RawGame(FALSE, dt, fn, FieldAbsent, Team("A"), Team("B")),
        RawGame(TRUE, DtMissing, fn, FieldAbsent, Team("A"), Team("B")),
        RawGame(TRUE, DtNonStr, fn, FieldAbsent, Team("A"), Team("B")),
        RawGame(TRUE, DtGarbage, fn, FieldAbsent, Team("A"), Team("B")),
        RawGame(TRUE, dt, FieldNameAbsent, FieldAbsent, Team("A"), Team("B")),
        RawGame(TRUE, dt, FieldNameAbsent, FieldNull, Team("A"), Team("B")),
        RawGame(TRUE, dt, FieldNameAbsent, FieldValue("3"), Team("A"), Team("B")),
        RawGame(TRUE, dt, FieldName(<<"Field ">>), FieldAbsent, Team("A"), Team("B")),
        RawGame(TRUE, dt, FieldNameNonStr, FieldAbsent, Team("A"), Team("B")),
        RawGame(TRUE, dt, fn, FieldAbsent, TeamAbsent, Team("B")),
        RawGame(TRUE, dt, fn, FieldAbsent, TeamNonObj, Team("B")),
        RawGame(TRUE, dt, fn, FieldAbsent, Team(""), Team("B")),
        RawGame(TRUE, dt, fn, FieldAbsent, Team("A"), TeamNonObj),
        RawGame(TRUE, dt, fn, FieldAbsent, Team("A"), Team(""))
    }

GameShapes == {GoodGame(dt) : dt \in GoodStamps} \cup OddGames

\* game_id: the API numbers the records of a games array; the model uses
\* the position, so that a returned game names the record it came from.
Numbered(games) == [i \in 1..Len(games) |-> [games[i] EXCEPT !.game_id = i]]

GamesArrays == {Numbered(gs) : gs \in SeqsUpTo(GameShapes, MaxGames)}

ApiResponses ==
    {ApiFailure(k) : k \in {"Timeout", "ConnectionError", "RequestException",
                            "JSONDecodeError"}}
        \cup {ApiJson(sh, <<>>) : sh \in {"falsy", "noteam", "teamnotobj", "nogames"}}
        \cup {ApiJson("doc", gs) : gs \in GamesArrays}

\* "100001" and "100011" are team ids; "a" and "000000" are not.
Id1 == <<"1", "0", "0", "0", "0", "1">>
Id2 == <<"1", "0", "0", "0", "1", "1">>
IdBad == <<"a">>
IdZero == <<"0", "0", "0", "0", "0", "0">>

\* The system's zone when the code runs: UTC, or Mountain Time.
SysOffsets == {0, tz}

ApiInputs ==
    {[team_id |-> Str(Id1), resp |-> r, now |-> Base + n, sysoff |-> so] :
        r \in ApiResponses, n \in 0..MaxNow, so \in SysOffsets}
        \cup {[team_id |-> t, resp |-> ApiFailure("Timeout"), now |-> Base, sysoff |-> 0] :
                t \in {Str(IdBad), Str(IdZero), NonString}}

\* Date texts: "Mon 06/02 06:30 PM", "Wed 06/04 07:15 PM", "Fri 01/03
\* 06:00 PM" and a leap day, "Thu 02/29 06:00 PM".
Jun2 == DateText(6, 2, 18 * 60 + 30)
Jun4 == DateText(6, 4, 19 * 60 + 15)
Jan3 == DateText(1, 3, 18 * 60)
Feb29 == DateText(2, 29, 18 * 60)

\* A canonical game, as get_team_schedule_from_api returns it for a record
\* that starts at the Mountain Time reading wall.
CanonicalGame(wall) ==
    get_team_schedule_from_api(Str(Id1),
        ApiJson("doc", Numbered(<<GoodGame(Iso(wall, "Z"))>>)), Base, 0).games[1]

\* Games handed to create_calendar_events: with a date text only, without
\* a date or without a team name, and canonical ones.
TextGames ==
    {TextGame(d, "A", "B") : d \in {Jun2, Jun4, Jan3, Feb29}}
        \cup {TextGame(Jun4, "EYE CANDY", "B")}
BrokenGames ==
    {[field |-> "3", home_team |-> "A", away_team |-> "B"],
     [date |-> Jun2, field |-> "3", away_team |-> "B"]}
CanonicalGames == {CanonicalGame(w) : w \in {Base, Late}}

\* A list handed to create_calendar_events holds at most MaxCalGames games.
MaxCalGames == 2

\* "now" is sampled at 2025-06-01T00:00:00 and within MaxSkew ticks of
\* 2025-06-09T18:30:00, seven days after Jun2 of 2025.
MaxSkew == 1

CalNows ==
    {ToTicks(2025, 6, 1, 0)}
        \cup {ToTicks(2025, 6, 9, 18 * TicksPerHour + 30 * TicksPerMin) + k :
                k \in (0 - MaxSkew)..MaxSkew}

CalInputs ==
    {[games |-> gs, now |-> n] :
        gs \in SeqsUpTo(TextGames \cup BrokenGames \cup CanonicalGames, MaxCalGames),
        n \in CalNows}

\* ----------------------------------------------------------- the handler

\* A request.  team_ids is the query parameter: absent, or the pieces of its
\* text between the commas.  body is the POST body: absent, text that is no
\* JSON, JSON that is no object, or an object whose 'games' is games.
\* qgames tells whether the query string has a non-empty 'games' parameter;
\* now is what datetime.now() reads while a download is served.
TeamIdsAbsent == [present |-> FALSE, items |-> <<>>]
TeamIdsParam(items) == [present |-> TRUE, items |-> items]
Body(kind, games) == [kind |-> kind, games |-> games]

FetchEvent(param) ==
    [action |-> "fetch", team_ids |-> param, body |-> Body("absent", <<>>),
     qgames |-> FALSE, now |-> 0]
DownloadEvent(body, qgames, now) ==
    [action |-> "download", team_ids |-> TeamIdsAbsent, body |-> body,
     qgames |-> qgames, now |-> now]
OtherEvent ==
    [action |-> "other", team_ids |-> TeamIdsAbsent, body |-> Body("absent", <<>>),
     qgames |-> FALSE, now |-> 0]

\* "not team_ids_param": the parameter is absent or the empty text.
TeamIdsMissing(ev) == ~ev.team_ids.present \/ ev.team_ids.items = << <<>> >>

\* [tid.strip() for tid in team_ids_param.split(',') if tid.strip()]
RECURSIVE StripAll(_)
StripAll(items) ==
    IF items = <<>> THEN <<>>
    ELSE (IF Strip(Head(items)) = <<>> THEN <<>> ELSE <<Strip(Head(items))>>)
             \o StripAll(Tail(items))

TeamIds(ev) == StripAll(ev.team_ids.items)

Response(status, body) == [statusCode |-> status, body |-> body]

\* Lines 344-349: a game tagged with its team.
Tagged(game, team_id, season, team_name) ==
    [game_id |-> game.game_id, date |-> game.date, datetime_obj |-> game.datetime_obj,
     field |-> game.field, home_team |-> game.home_team, away_team |-> game.away_team,
     team_id |-> team_id, season |-> season, team_name |-> team_name,
     id |-> <<season, game.date, game.home_team, game.away_team, game.field>>]

TagAll(games, team_id, season, team_name) ==
    [i \in 1..Len(games) |-> Tagged(games[i], team_id, season, team_name)]

\* Whether json.dumps can write the games: a datetime is not serializable.
JsonSerializable(games) ==
    \A i \in 1..Len(games) : ~HasKey(games[i], "datetime_obj")

\* Lines 358-366: the body of the success response.
ResponseBody(games, processed, failed, invalid) ==
    IF failed # <<>> /\ invalid # <<>>
    THEN [games |-> games, processed_team_ids |-> processed,
          failed_teams |-> failed, invalid_team_ids |-> invalid]
    ELSE IF failed # <<>>
    THEN [games |-> games, processed_team_ids |-> processed, failed_teams |-> failed]
    ELSE IF invalid # <<>>
    THEN [games |-> games, processed_team_ids |-> processed, invalid_team_ids |-> invalid]
    ELSE [games |-> games, processed_team_ids |-> processed]

\* What the network answers while a fetch request is served, and the
\* readings of the clock then.
HandlerResponses ==
    {ApiFailure("Timeout"), ApiJson("noteam", <<>>),
     ApiJson("doc", Numbered(<<GoodGame(Iso(Base, "Z"))>>)),
     ApiJson("doc", Numbered(<<GoodGame(Iso(Late, "Z"))>>)),
     ApiJson("doc", Numbered(<<GoodGame(DtGarbage)>>))}
HandlerNows == {Base, Base + MaxNow}

\* Lines 275-289: a fetch request without team ids.
FetchNoTeamIds ==
    /\ pc = "start" /\ event.action = "fetch" /\ TeamIdsMissing(event)
    /\ response' = Response(400, [error |-> "Team IDs are required",
                                  errorType |-> "ValidationError"])
    /\ pc' = "done"
    /\ UNCHANGED << event, idx, valid_team_ids, invalid_team_ids, seen_ids,
                    validation_errors, all_games, failed_teams, validate_calls,
                    fetch_log, emit_calls, validateVars, apiVars, calVars >>

\* Lines 291-298: a fetch request with team ids enters the validation loop.
FetchBegin ==
    /\ pc = "start" /\ event.action = "fetch" /\ ~TeamIdsMissing(event)
    /\ pc' = "validate" /\ idx' = 1
    /\ valid_team_ids' = <<>> /\ invalid_team_ids' = <<>> /\ seen_ids' = {}
    /\ validation_errors' = <<>>
    /\ UNCHANGED << event, all_games, failed_teams, response, validate_calls,
                    fetch_log, emit_calls, validateVars, apiVars, calVars >>

\* Lines 300-317: one round of the validation loop.
ValidateTeamId ==
    /\ pc = "validate" /\ idx <= Len(TeamIds(event))
    /\ LET team_id == TeamIds(event)[idx] IN
       IF team_id \in seen_ids
       THEN /\ invalid_team_ids' = Append(invalid_team_ids,
                                          [id |-> team_id, reason |-> "Duplicate team ID"])
            /\ UNCHANGED << valid_team_ids, seen_ids, validation_errors, validate_calls >>
       ELSE LET v == validate_team_id(Str(team_id)) IN
            /\ validate_calls' = Append(validate_calls, team_id)
            /\ IF v.ok
               THEN /\ valid_team_ids' = Append(valid_team_ids, team_id)
                    /\ seen_ids' = seen_ids \cup {team_id}
                    /\ UNCHANGED << invalid_team_ids, validation_errors >>
               ELSE /\ invalid_team_ids' = Append(invalid_team_ids,
                                                  [id |-> team_id, reason |-> v.err])
                    /\ validation_errors' = Append(validation_errors, v.err)
                    /\ UNCHANGED << valid_team_ids, seen_ids >>
    /\ idx' = idx + 1
    /\ UNCHANGED << event, pc, all_games, failed_teams, response, fetch_log,
                    emit_calls, validateVars, apiVars, calVars >>

\* Lines 319-332: no id passed validation.
NoValidTeamIds ==
    /\ pc = "validate" /\ idx > Len(TeamIds(event)) /\ valid_team_ids = <<>>
    /\ response' = Response(400, [error |-> "No valid team IDs provided",
                                  errorType |-> "ValidationError",
                                  invalid_ids |-> invalid_team_ids,
                                  validation_errors |-> validation_errors])
    /\ pc' = "done"
    /\ UNCHANGED << event, idx, valid_team_ids, invalid_team_ids, seen_ids,
                    validation_errors, all_games, failed_teams, validate_calls,
                    fetch_log, emit_calls, validateVars, apiVars, calVars >>

\* Lines 334-336: the handler goes on to fetch the valid ids.
ProcessBegin ==
    /\ pc = "validate" /\ idx > Len(TeamIds(event)) /\ valid_team_ids # <<>>
    /\ pc' = "process" /\ idx' = 1
    /\ all_games' = <<>> /\ failed_teams' = <<>>
    /\ UNCHANGED << event, valid_team_ids, invalid_team_ids, seen_ids,
                    validation_errors, response, validate_calls, fetch_log,
                    emit_calls, validateVars, apiVars, calVars >>

\* ProcessTeam, had a failed fetch ended the loop over valid_team_ids.
ProcessTeamEndingAtFailure ==
    /\ pc = "process" /\ idx <= Len(valid_team_ids)
    /\ LET team_id == valid_team_ids[idx] IN
       \E resp \in HandlerResponses, now \in HandlerNows, sysoff \in SysOffsets :
           LET r == get_team_schedule_from_api(Str(team_id), resp, now, sysoff) IN
           /\ validate_calls' = Append(validate_calls, team_id)
           /\ fetch_log' = IF validate_team_id(Str(team_id)).ok
                           THEN Append(fetch_log, team_id) ELSE fetch_log
           /\ IF r.ok
              THEN /\ all_games' = all_games \o TagAll(r.games, team_id, r.season,
                                                       r.team_name)
                   /\ idx' = idx + 1
                   /\ UNCHANGED failed_teams
              ELSE /\ failed_teams' = Append(failed_teams,
                                             [team_id |-> team_id, error |-> r.err,
                                              errorType |-> r.errType])
                   /\ idx' = Len(valid_team_ids) + 1
                   /\ UNCHANGED all_games
    /\ UNCHANGED << event, pc, valid_team_ids, invalid_team_ids, seen_ids,
                    validation_errors, response, emit_calls,
                    validateVars, apiVars, calVars >>

\* Lines 339-355: one round of the loop over valid_team_ids.  The call of
\* get_team_schedule_from_api validates the id once more (line 66) and
\* then issues the request (line 75).
ProcessTeam ==
    /\ pc = "process" /\ idx <= Len(valid_team_ids)
    /\ LET team_id == valid_team_ids[idx] IN
       \E resp \in HandlerResponses, now \in HandlerNows, sysoff \in SysOffsets :
           LET r == get_team_schedule_from_api(Str(team_id), resp, now, sysoff) IN
           /\ validate_calls' = Append(validate_calls, team_id)
           /\ fetch_log' = IF validate_team_id(Str(team_id)).ok
                           THEN Append(fetch_log, team_id) ELSE fetch_log
           /\ IF r.ok
              THEN /\ all_games' = all_games \o TagAll(r.games, team_id, r.season,
                                                       r.team_name)
                   /\ UNCHANGED failed_teams
              ELSE /\ failed_teams' = Append(failed_teams,
                                             [team_id |-> team_id, error |-> r.err,
                                              errorType |-> r.errType])
                   /\ UNCHANGED all_games
    /\ idx' = idx + 1
    /\ UNCHANGED << event, pc, valid_team_ids, invalid_team_ids, seen_ids,
                    validation_errors, response, emit_calls,
                    validateVars, apiVars, calVars >>

\* Lines 357-391: the response is built and written with json.dumps; a
\* TypeError of json.dumps is caught by the outer handler of line 377.
Respond ==
    /\ pc = "process" /\ idx > Len(valid_team_ids)
    /\ response' =
         IF JsonSerializable(all_games)
         THEN Response(200, ResponseBody(all_games, valid_team_ids, failed_teams,
                                         invalid_team_ids))
         ELSE Response(500, [error |-> "An unexpected error occurred",
                             errorType |-> "TypeError",
                             processed_team_ids |-> valid_team_ids,
                             failed_teams |-> failed_teams,
                             invalid_team_ids |-> invalid_team_ids])
    /\ pc' = "done"
    /\ UNCHANGED << event, idx, valid_team_ids, invalid_team_ids, seen_ids,
                    validation_errors, all_games, failed_teams, validate_calls,
                    fetch_log, emit_calls, validateVars, apiVars, calVars >>

\* DownloadHasGames, had the check of line 413 been left out.
DownloadUnchecked(ev) == TRUE

\* The games that the download branch hands on (lines 397-411): those of
\* the body, or the text of the query parameter.
DownloadHasGames(ev) ==
    IF ev.body.kind = "absent" THEN ev.qgames ELSE ev.body.games # <<>>

\* Lines 393-448: the download action.  A body that is no JSON is answered
\* with 400; one that is JSON but no object fails at body.get; without a
\* body the games are the text of the query parameter, which the emitter
\* cannot index.
Download ==
    /\ pc = "start" /\ event.action = "download"
    /\ IF event.body.kind = "badjson"
       THEN /\ response' = Response(400, [error |-> "Invalid JSON in request body"])
            /\ UNCHANGED emit_calls
       ELSE IF event.body.kind = "nonobject"
       THEN /\ response' = Response(500, [error |-> "Failed to generate calendar",
                                          errorType |-> "AttributeError"])
            /\ UNCHANGED emit_calls
       ELSE IF ~DownloadHasGames(event)
       THEN /\ response' = Response(400, [error |-> "No games provided for calendar"])
            /\ UNCHANGED emit_calls
       ELSE IF event.body.kind = "absent" /\ event.qgames
       THEN /\ response' = Response(500, [error |-> "Failed to generate calendar",
                                          errorType |-> "TypeError"])
            /\ emit_calls' = emit_calls + 1
       ELSE LET cal == create_calendar_events(event.body.games, event.now) IN
            /\ emit_calls' = emit_calls + 1
            /\ response' = IF cal.ok THEN Response(200, [calendar |-> cal.lines])
                           ELSE Response(500, [error |-> "Failed to generate calendar",
                                               errorType |-> cal.errType])
    /\ pc' = "done"
    /\ UNCHANGED << event, idx, valid_team_ids, invalid_team_ids, seen_ids,
                    validation_errors, all_games, failed_teams, validate_calls,
                    fetch_log, validateVars, apiVars, calVars >>

\* Lines 450-458: any other action.
InvalidAction ==
    /\ pc = "start" /\ event.action \notin {"fetch", "download"}
    /\ response' = Response(400, [error |-> "Invalid action"])
    /\ pc' = "done"
    /\ UNCHANGED << event, idx, valid_team_ids, invalid_team_ids, seen_ids,
                    validation_errors, all_games, failed_teams, validate_calls,
                    fetch_log, emit_calls, validateVars, apiVars, calVars >>

\* The pieces of a team_ids parameter: two ids, a text that is no id, an id
\* after a blank, and a blank alone.  A parameter has at most MaxIds pieces.
RawItems == {Id1, Id2, IdBad, <<"SP">> \o Id1, <<"SP">>}
MaxIds == 3

FetchEvents ==
    {FetchEvent(TeamIdsAbsent), FetchEvent(TeamIdsParam(<< <<>> >>))}
        \cup {FetchEvent(TeamIdsParam(items)) :
                items \in SeqsUpTo(RawItems, MaxIds) \ {<<>>}}

\* The bodies of a download request that carry no list of games.
OtherBodies == {Body("absent", <<>>), Body("badjson", <<>>), Body("nonobject", <<>>)}

\* A datetime does not travel as JSON: the games of a body have none.
JsonGames == SeqsUpTo(TextGames \cup BrokenGames, MaxCalGames)

DownloadEvents ==
    {DownloadEvent(b, q, n) : b \in OtherBodies, q \in BOOLEAN, n \in {ToTicks(2025, 6, 1, 0)}}
        \cup {DownloadEvent(Body("object", gs), FALSE, n) : gs \in JsonGames, n \in CalNows}

Events == FetchEvents \cup DownloadEvents \cup {OtherEvent}

\* ------------------------------------------- specification: validator

ValidateInputs == {NonString} \cup {Str(s) : s \in SeqsUpTo(Alphabet, MaxStrLen)}

ValidateIdle == v_in = None /\ v_out = None
ApiIdle == api_in = None /\ api_out = None
CalIdle == cal_in = None /\ cal_out = None
HandlerIdle ==
    /\ event = None /\ pc = "idle" /\ idx = 0
    /\ valid_team_ids = <<>> /\ invalid_team_ids = <<>> /\ seen_ids = {}
    /\ validation_errors = <<>> /\ all_games = <<>> /\ failed_teams = <<>>
    /\ response = None /\ validate_calls = <<>> /\ fetch_log = <<>> /\ emit_calls = 0

InitValidate ==
    /\ v_in \in ValidateInputs /\ v_out = None
    /\ ApiIdle /\ CalIdle /\ HandlerIdle

\* A call of validate_team_id(v_in).
CallValidate ==
    /\ v_in # None /\ v_out = None
    /\ v_out' = validate_team_id(v_in)
    /\ UNCHANGED << v_in, apiVars, calVars, handlerVars >>

NextValidate == CallValidate

SpecValidate == InitValidate /\ [][NextValidate]_vars

\* --------------------------------------- specification: source adapter

InitApi ==
    /\ api_in \in ApiInputs /\ api_out = None
    /\ ValidateIdle /\ CalIdle /\ HandlerIdle

\* A call of get_team_schedule_from_api(api_in.team_id).
CallApi ==
    /\ api_in # None /\ api_out = None
    /\ api_out' = get_team_schedule_from_api(api_in.team_id, api_in.resp,
                                             api_in.now, api_in.sysoff)
    /\ UNCHANGED << api_in, validateVars, calVars, handlerVars >>

NextApi == CallApi

SpecApi == InitApi /\ [][NextApi]_vars

\* ------------------------------------- specification: calendar emitter

InitCal ==
    /\ cal_in \in CalInputs /\ cal_out = None
    /\ ValidateIdle /\ ApiIdle /\ HandlerIdle

\* A call of create_calendar_events(cal_in.games).
CallCreateCalendar ==
    /\ cal_in # None /\ cal_out = None
    /\ cal_out' = create_calendar_events(cal_in.games, cal_in.now)
    /\ UNCHANGED << cal_in, validateVars, apiVars, handlerVars >>

\* A download request arrives: with the games of cal_in as its body when
\* they can travel as JSON, or with a body that carries no games.
SubmitDownload ==
    /\ cal_in # None /\ pc = "idle"
    /\ \E b \in OtherBodies \cup {Body("object", cal_in.games)}, q \in BOOLEAN :
        /\ b.kind = "object" => ~q /\ cal_in.games \in JsonGames
        /\ event' = DownloadEvent(b, q, cal_in.now)
    /\ pc' = "start"
    /\ UNCHANGED << idx, valid_team_ids, invalid_team_ids, seen_ids,
                    validation_errors, all_games, failed_teams, response,
                    validate_calls, fetch_log, emit_calls,
                    validateVars, apiVars, calVars >>

NextCal == CallCreateCalendar \/ SubmitDownload \/ Download

SpecCal == InitCal /\ [][NextCal]_vars

\* ----------------------------------------------- specification: handler

Init ==
    /\ event \in Events /\ pc = "start" /\ idx = 0
    /\ valid_team_ids = <<>> /\ invalid_team_ids = <<>> /\ seen_ids = {}
    /\ validation_errors = <<>> /\ all_games = <<>> /\ failed_teams = <<>>
    /\ response = None /\ validate_calls = <<>> /\ fetch_log = <<>> /\ emit_calls = 0
    /\ ValidateIdle /\ ApiIdle /\ CalIdle

Next ==
    \/ FetchNoTeamIds
    \/ FetchBegin
    \/ ValidateTeamId
    \/ NoValidTeamIds
    \/ ProcessBegin
    \/ ProcessTeam
    \/ Respond
    \/ Download
    \/ InvalidAction

Spec == Init /\ [][Next]_vars

\* ------------------------------------------------------ claims: validator

\* A string of exactly six ASCII digits whose value is above zero.
IsSixAsciiDigitsAboveZero(x) ==
    /\ x.isstr
    /\ Len(x.chars) = IdLen
    /\ \A i \in 1..IdLen : x.chars[i] \in AsciiDigits
    /\ \E i \in 1..IdLen : x.chars[i] # "0"

\* C2: validate_team_id returns True exactly for the strings of exactly six
\* ASCII digits with a value above zero, and raises for every other input.
C2_ValidExactlySixAsciiDigits ==
    v_out # None => (v_out.ok <=> IsSixAsciiDigitsAboveZero(v_in))

\* --------------------------------------------------- claims: source adapter

ApiReturned == api_out # None /\ api_out.ok

\* The record of the games array that a returned game was built from.
SourceOf(g) == api_in.resp.games[g.game_id]

\* C5: every game that get_team_schedule_from_api returns starts at or after
\* the instant "now" read by the call; none starts before it, not even by
\* less than a minute.
C5_NoGameBeforeNow ==
    ApiReturned =>
        \A i \in 1..Len(api_out.games) :
            Instant(api_out.games[i].datetime_obj) >= Instant(Aware(api_in.now, tz))

\* C6 as stated: a timestamp ending in "Z" is read as UTC and shifted by
\* -7 hours, so the wall clock of the start is 7 hours earlier than the
\* wall clock written in the record.
C6_ZReadAsUtcThenShifted ==
    ApiReturned =>
        \A i \in 1..Len(api_out.games) :
            LET src == SourceOf(api_out.games[i]).SchedGameDateTime IN
            src.sfx = "Z" =>
                api_out.games[i].datetime_obj = Aware(src.wall - 7 * TicksPerHour, tz)

\* C6 as amended: a timestamp ending in "Z" keeps the wall clock written in
\* the record and is given the fixed offset -07:00.
C6_ZKeepsWallClockAtFixedOffset ==
    ApiReturned =>
        \A i \in 1..Len(api_out.games) :
            LET src == SourceOf(api_out.games[i]).SchedGameDateTime IN
            src.sfx = "Z" =>
                /\ api_out.games[i].datetime_obj = Aware(src.wall, -7 * TicksPerHour)
                /\ api_out.games[i].date = strftime(Naive(src.wall))

\* The record "2025-07-04T19:00:00Z" has been resolved and returned.
C6_Witness ==
    /\ ApiReturned
    /\ \E i \in 1..Len(api_out.games) :
        /\ SourceOf(api_out.games[i]).SchedGameDateTime = Iso(Base, "Z")
        /\ api_out.games[i].datetime_obj.wall = ToTicks(2025, 7, 4, 19 * TicksPerHour)

\* A record with everything the adapter needs: an object with a timestamp
\* that parses, a field label, and two team objects with names.
HasFieldLabel(g) ==
    \/ /\ g.field_name.kind = "str"
       /\ Concat(SelectSeq(g.field_name.toks, LAMBDA t : t # "Field ")) # ""
    \/ /\ g.field_name.kind = "absent"
       /\ g.Field.kind = "val" /\ g.Field.text # ""

WellFormedRecord(g) ==
    /\ g.obj
    /\ g.SchedGameDateTime.kind = "iso"
    /\ HasFieldLabel(g)
    /\ g.home_team.kind = "obj" /\ g.home_team.name # ""
    /\ g.visitor_team.kind = "obj" /\ g.visitor_team.name # ""

\* The start of a well-formed record, on the Mountain Time clock.
StartOf(g) ==
    LET s == g.SchedGameDateTime
        off == IF s.sfx = "" THEN api_in.sysoff
               ELSE IF s.sfx \in {"Z", "-07:00"} THEN tz ELSE 0
    IN (s.wall - off) + tz

\* The well-formed records that lie in the future of the clock the call
\* filters by (now, to the minute), in source order.
UsableRecords ==
    SelectSeq(api_in.resp.games,
              LAMBDA g : WellFormedRecord(g)
                         /\ StartOf(g) >= RoundMin(Aware(api_in.now, tz)).wall)

ApiGotDocument ==
    /\ api_out # None
    /\ validate_team_id(api_in.team_id).ok
    /\ api_in.resp.kind = "json" /\ api_in.resp.shape = "doc"

\* C9: a malformed record of the games array is skipped and never aborts the
\* batch: the call returns exactly the well-formed future records, in source
\* order, and fails with the no-games error only when none remains.
C9_MalformedSkippedOthersKept ==
    ApiGotDocument =>
        IF UsableRecords = <<>>
        THEN ~api_out.ok /\ api_out.err = "No upcoming games found for the provided team."
        ELSE /\ api_out.ok
             /\ [i \in 1..Len(api_out.games) |-> api_out.games[i].game_id]
                    = [i \in 1..Len(UsableRecords) |-> UsableRecords[i].game_id]


\* ---------------------------------------------------------- claims: handler

Count(seq, Test(_)) == Cardinality({i \in 1..Len(seq) : Test(seq[i])})

FetchDone == pc = "done" /\ event.action = "fetch"

\* C1: a fetch request with at least one valid id is answered with status
\* 200, the games of every team that succeeded and one failed_teams entry
\* for every team that failed, whatever the outcomes of the teams; never
\* with an error response because one team failed or games were found.
C1_FetchAlwaysPartialResults ==
    (FetchDone /\ valid_team_ids # <<>>) =>
        /\ response.statusCode = 200
        /\ response.body.games = all_games
        /\ failed_teams # <<>> => /\ HasKey(response.body, "failed_teams")
                                  /\ response.body.failed_teams = failed_teams
        /\ \A i \in 1..Len(valid_team_ids) :
            LET id == valid_team_ids[i]
                failures == Count(failed_teams, LAMBDA f : f.team_id = id)
                games == Count(all_games, LAMBDA g : g.team_id = id)
            IN (failures = 1 /\ games = 0) \/ (failures = 0 /\ games > 0)

\* C3: for every id that occurs more than once in team_ids, valid or not,
\* the validator is invoked at most once over the whole request, and every
\* occurrence after the first is recorded in invalid_team_ids with the
\* reason 'Duplicate team ID', not with a format reason.
C3_DuplicatesNeverRevalidated ==
    (event # None /\ event.action = "fetch" /\ pc # "start" /\ ~TeamIdsMissing(event)) =>
        \A i \in 1..Len(TeamIds(event)) :
            LET id == TeamIds(event)[i]
                occurrences == Count(TeamIds(event), LAMBDA t : t = id)
            IN occurrences > 1 =>
                /\ Count(validate_calls, LAMBDA t : t = id) <= 1
                /\ pc = "done" =>
                    /\ Count(invalid_team_ids,
                             LAMBDA e : e.id = id /\ e.reason = "Duplicate team ID")
                           = occurrences - 1
                    /\ Count(invalid_team_ids,
                             LAMBDA e : e.id = id /\ e.reason # "Duplicate team ID") <= 1

\* C4: when a fetch request merges the games of two or more teams, the
\* games of the result are sorted ascending by start instant, whatever the
\* order of the team ids in the request.
C4_MergedGamesChronological ==
    (FetchDone /\ Cardinality({all_games[i].team_id : i \in 1..Len(all_games)}) >= 2) =>
        \A i \in 1..(Len(all_games) - 1) :
            Instant(all_games[i].datetime_obj) <= Instant(all_games[i + 1].datetime_obj)

\* The distinct valid ids of a request, in the order of their first
\* occurrence.
RECURSIVE FirstValidOccurrences(_, _)
FirstValidOccurrences(ids, earlier) ==
    IF ids = <<>> THEN <<>>
    ELSE (IF Head(ids) \notin earlier /\ validate_team_id(Str(Head(ids))).ok
          THEN <<Head(ids)>> ELSE <<>>)
             \o FirstValidOccurrences(Tail(ids), earlier \cup {Head(ids)})

IdsToFetch ==
    IF TeamIdsMissing(event) THEN <<>> ELSE FirstValidOccurrences(TeamIds(event), {})

\* How many of the ids to fetch the request has dealt with so far.
FetchesDue ==
    IF pc = "process" THEN idx - 1
    ELSE IF pc = "done" THEN Len(IdsToFetch)
    ELSE 0

CalReturned == cal_in # None /\ cal_out # None

LinesWith(lines, text) == {i \in 1..Len(lines) : lines[i].text = text}

\* Every VEVENT block holds exactly one VALARM block, which displays and
\* triggers 40 minutes before the start.
OneAlarmPerEvent(lines) ==
    \A b \in LinesWith(lines, "BEGIN:VEVENT") :
        LET e == CHOOSE j \in LinesWith(lines, "END:VEVENT") :
                     j > b /\ \A k \in LinesWith(lines, "END:VEVENT") : k > b => j <= k
            inside(text) == {i \in LinesWith(lines, text) : b < i /\ i < e}
        IN /\ Cardinality(inside("BEGIN:VALARM")) = 1
           /\ Cardinality(inside("END:VALARM")) = 1
           /\ Cardinality(inside("ACTION:DISPLAY")) = 1
           /\ Cardinality(inside("TRIGGER:-PT40M")) = 1

AllCanonical(games) ==
    \A i \in 1..Len(games) :
        HasKey(games[i], "datetime_obj") /\ games[i].datetime_obj.aware

\* C7: for every non-empty sequence of canonical games (each with an aware
\* start instant) create_calendar_events returns, without an error, a
\* calendar with exactly one VEVENT per game and one VALARM per VEVENT, with
\* action DISPLAY and a trigger 40 minutes before the start.
C7_CanonicalGamesEmitted ==
    (CalReturned /\ cal_in.games # <<>> /\ AllCanonical(cal_in.games)) =>
        /\ cal_out.ok
        /\ Cardinality(LinesWith(cal_out.lines, "BEGIN:VEVENT")) = Len(cal_in.games)
        /\ Cardinality(LinesWith(cal_out.lines, "BEGIN:VALARM")) = Len(cal_in.games)
        /\ OneAlarmPerEvent(cal_out.lines)

\* Games that carry a date text only, with every key the emitter reads.
AllTextOnly(games) ==
    \A i \in 1..Len(games) :
        /\ ~HasKey(games[i], "datetime_obj")
        /\ HasKey(games[i], "date") /\ HasKey(games[i], "home_team")
        /\ HasKey(games[i], "away_team") /\ HasKey(games[i], "field")

NoLeapDay(games) ==
    \A i \in 1..Len(games) : ~(games[i].date.mon = 2 /\ games[i].date.day = 29)

\* d comes before e in (month, day, time) order.
DateBefore(d, e) ==
    \/ d.mon < e.mon
    \/ d.mon = e.mon /\ d.day < e.day
    \/ d.mon = e.mon /\ d.day = e.day /\ d.mins < e.mins

\* The year C8 names: the current year, or the next one when the earliest
\* game, placed in the current year, is more than 7 days before now.
SeasonYear(games, now) ==
    LET first == CHOOSE i \in 1..Len(games) :
                     \A j \in 1..Len(games) : ~DateBefore(games[j].date, games[i].date)
        d == games[first].date
        placed == ToTicks(YearOf(now), d.mon, d.day, d.mins * TicksPerMin)
    IN IF now - placed > 7 * TicksPerDay THEN YearOf(now) + 1 ELSE YearOf(now)

\* The years of the starts written in a calendar, on the Mountain Time clock.
StartYears(lines) ==
    {YearOf(astimezone(lines[i].dt, tz, 0).wall) : i \in LinesWith(lines, "DTSTART")}

RequestGames(ev) == IF ev.body.kind = "object" THEN ev.body.games ELSE <<>>

\* C10: create_calendar_events of no games returns, without an error, the
\* calendar header and footer with no VEVENT and no VALARM; the download
\* action answers an empty games list with 400 before the emitter is called.
C10_EmptyCalendarAndEmptyDownload ==
    /\ (CalReturned /\ cal_in.games = <<>>) =>
          /\ cal_out.ok
          /\ cal_out.lines # <<>>
          /\ cal_out.lines[1].text = "BEGIN:VCALENDAR"
          /\ cal_out.lines[Len(cal_out.lines)].text = "END:VCALENDAR"
          /\ LinesWith(cal_out.lines, "BEGIN:VEVENT") = {}
          /\ LinesWith(cal_out.lines, "BEGIN:VALARM") = {}
    /\ (pc = "done" /\ event.action = "download"
            /\ event.body.kind \in {"object", "absent"}
            /\ RequestGames(event) = <<>> /\ ~event.qgames) =>
          /\ response.statusCode = 400
          /\ emit_calls = 0

\* The emitter has returned for no games, and a download request with an
\* empty games list has been answered.
C10_Witness ==
    /\ CalReturned /\ cal_in.games = <<>> /\ cal_out.ok
    /\ pc = "done" /\ event.body = Body("object", <<>>)
    /\ response.statusCode = 400

====
